---- MODULE Spec2Model ----
(***************************************************************************)
(* Model of the LDAP connector of dex (connector/ldap/ldap.go).            *)
(*                                                                         *)
(* Conventions.  Configuration strings and attribute names are TLA+        *)
(* strings.  Data strings that travel through the connector (usernames,    *)
(* passwords, distinguished names, attribute values) are sequences of      *)
(* one-byte symbols, so that byte-wise conversions (filter escaping, JSON  *)
(* encoding) are computed and not assumed.  The directory server is the    *)
(* environment: every dial, bind and search draws its outcome from the     *)
(* set of outcomes the protocol library can report.                        *)
(***************************************************************************)
EXTENDS Integers, Sequences, FiniteSets, TLC

VARIABLES
    cfg,        \* the Config value OpenConnector is called on
    connector,  \* the ldapConnector built by OpenConnector, or NoConnector
    openErr,    \* the error returned by OpenConnector
    pc,         \* position of the running call
    call,       \* the running (or last) call: name and arguments
    loc,        \* local variables of the running call
    doFn,       \* the closure the running do() was given
    doErr,      \* the error the last do() returned
    conns,      \* the connections dialed by the running (or last) call
    trace,      \* directory operations issued by the running (or last) call
    ret,        \* what the last finished call returned
    nrefresh,   \* number of Refresh calls started since the last Login
    issued,     \* ConnectorData returned by the last successful Login
    chained,    \* the last call returned an identity descending from issued
    directory,  \* concurrent calls: the directory, which does not change
    threads,    \* concurrent calls: per goroutine, its position, call and result
    frames,     \* concurrent calls: the local variables of each call
    interleaved \* concurrent calls: a call took a step while another was running

seqVars == <<cfg, connector, openErr, pc, call, loc, doFn, doErr, conns, trace,
             ret, nrefresh, issued, chained>>
concVars == <<directory, threads, frames, interleaved>>
vars == <<seqVars, concVars>>

-----------------------------------------------------------------------------
(* Bounds *)

MaxRefreshes == 2   \* Refresh calls between two Login calls
MaxEntries == 2     \* entries in one search response

-----------------------------------------------------------------------------
(* Values of the protocol library used by the connector *)

ScopeSingleLevel == 1
ScopeWholeSubtree == 2
LDAPResultInvalidCredentials == 49
LDAPResultInsufficientAccessRights == 50

NoError == [kind |-> "nil"]

\* Outcomes of conn.Bind: nil, an *ldap.Error with a result code, or an
\* error of another type (a transport error the library did not wrap).
BindOK == [type |-> "nil", ResultCode |-> 0]
BindOutcomes ==
    { BindOK,
      [type |-> "ldap.Error", ResultCode |-> LDAPResultInvalidCredentials],
      [type |-> "ldap.Error", ResultCode |-> LDAPResultInsufficientAccessRights],
      [type |-> "error", ResultCode |-> 0] }

\* Outcomes of ldap.Dial / ldap.DialTLS.
DialOutcomes == {"ok", "refused"}

ZeroEntry == [DN |-> <<>>, Attributes |-> <<>>]

Attr(name, values) == [Name |-> name, Values |-> values]

\* Entries the directory may return to the user search.
UserEntries ==
    { [DN |-> <<"u", "a">>,
       Attributes |-> << Attr("uid", << <<"a">> >>),
                         Attr("mail", << <<"m">>, <<"n">> >>),
                         Attr("cn", << <<"A">> >>) >>],
      [DN |-> <<"u", "(">>,
       Attributes |-> << Attr("uid", << <<"*">> >>),
                         Attr("mail", << <<"m">> >>),
                         Attr("cn", << <<"B">> >>) >>],
      [DN |-> <<"u", "c">>,
       Attributes |-> << Attr("mail", << >>),
                         Attr("mail", << <<"m">> >>),
                         Attr("cn", << <<>>, <<"C">> >>) >>] }

\* Entries the directory may return to the group search.
GroupEntries ==
    { [DN |-> <<"g", "1">>, Attributes |-> << Attr("cn", << <<"x">> >>) >>],
      [DN |-> <<"g", "2">>, Attributes |-> << Attr("cn", << <<"y">>, <<"z">> >>) >>],
      [DN |-> <<"g", "3">>, Attributes |-> << Attr("member", << <<"a">> >>) >>] }

SeqsUpTo(S, n) == UNION { [1..k -> S] : k \in 0..n }

\* Outcomes of conn.Search: an error, or a response carrying entries.
SearchOutcomes(S) ==
    { [err |-> TRUE, Entries |-> <<>>] } \cup
    { [err |-> FALSE, Entries |-> es] : es \in SeqsUpTo(S, MaxEntries) }

\* Arguments of the host.
Usernames == { <<"a">>, <<"(", "<ff>">> }
Passwords == { <<"p">>, <<>> }
Scopes == [Groups : BOOLEAN, OfflineAccess : BOOLEAN]

-----------------------------------------------------------------------------
(* Configuration *)

BaseConfig ==
    [Host |-> [name |-> "ldap.example.com", port |-> "636"],
     InsecureNoSSL |-> FALSE,
     InsecureSkipVerify |-> FALSE,
     RootCA |-> "",
     RootCAData |-> "",
     BindDN |-> <<"s">>,
     BindPW |-> <<"w">>,
     UserSearch |-> [BaseDN |-> "cn=users", Filter |-> "", Username |-> "uid",
                     Scope |-> "", IDAttr |-> "uid", EmailAttr |-> "mail",
                     NameAttr |-> ""],
     GroupSearch |-> [BaseDN |-> "cn=groups", Filter |-> "", Scope |-> "",
                      UserAttr |-> "uid", GroupAttr |-> "member",
                      NameAttr |-> "cn"]]

\* A second deployment: plaintext, anonymous service bind, base filters,
\* a name attribute, and the user's DN as the link to its groups.
PlainConfig ==
    [BaseConfig EXCEPT
        !.Host = [name |-> "ldap.example.com", port |-> ""],
        !.InsecureNoSSL = TRUE,
        !.RootCA = "/etc/dex/ldap.ca",
        !.BindDN = <<>>,
        !.BindPW = <<>>,
        !.UserSearch.Filter = "(objectClass=person)",
        !.UserSearch.Scope = "one",
        !.UserSearch.NameAttr = "cn",
        !.GroupSearch.Filter = "(objectClass=group)",
        !.GroupSearch.Scope = "sub",
        !.GroupSearch.UserAttr = "DN"]

\* The configurations OpenConnector is called on.
Configs ==
    { BaseConfig,
      PlainConfig,
      [BaseConfig EXCEPT !.UserSearch.IDAttr = "", !.UserSearch.EmailAttr = ""],
      [BaseConfig EXCEPT !.Host = [name |-> "", port |-> ""], !.RootCAData = "pem"],
      [BaseConfig EXCEPT !.UserSearch.BaseDN = ""],
      [BaseConfig EXCEPT !.UserSearch.Username = ""],
      [BaseConfig EXCEPT !.RootCA = "/etc/dex/missing.ca"],
      [BaseConfig EXCEPT !.RootCA = "/etc/dex/empty.ca"],
      [BaseConfig EXCEPT !.RootCAData = "junk", !.RootCA = "/etc/dex/ldap.ca"],
      [BaseConfig EXCEPT !.UserSearch.Scope = "base"],
      [PlainConfig EXCEPT !.GroupSearch.Scope = "subtree"] }

\* ioutil.ReadFile on the files of the host: content, or a read error.
ReadFile(path) ==
    CASE path = "/etc/dex/ldap.ca" -> [data |-> "pem", err |-> FALSE]
      [] path = "/etc/dex/empty.ca" -> [data |-> "", err |-> FALSE]
      [] OTHER -> [data |-> "", err |-> TRUE]

\* x509.CertPool.AppendCertsFromPEM: TRUE iff a certificate was parsed.
AppendCertsFromPEM(data) == data = "pem"

\* parseScope taking every unknown value for the default scope.
parseScopeLenient(s) ==
    CASE s = "one" -> [scope |-> ScopeSingleLevel, ok |-> TRUE]
      [] OTHER -> [scope |-> ScopeWholeSubtree, ok |-> TRUE]

parseScope(s) ==
    CASE s \in {"", "sub"} -> [scope |-> ScopeWholeSubtree, ok |-> TRUE]
      [] s = "one" -> [scope |-> ScopeSingleLevel, ok |-> TRUE]
      [] OTHER -> [scope |-> 0, ok |-> FALSE]

NoConnector == [exists |-> FALSE]

ConfigError(msg, arg) == [kind |-> msg, arg |-> arg]

\* Config.OpenConnector: the connector, the error, and the Config as the
\* call leaves it (the port default is written into the receiver).
OpenConnectorOn(c) ==
    LET fail(c1, e) == [conn |-> NoConnector, err |-> e, cfg |-> c1]
        noPort == c.Host.port = ""
        host == c.Host.name
        c2 == IF noPort
              THEN [c EXCEPT !.Host.port = IF c.InsecureNoSSL THEN "389" ELSE "636"]
              ELSE c
        wantCA == c.RootCA # "" \/ c.RootCAData # ""
        file == ReadFile(c.RootCA)
        data == IF c.RootCAData # "" THEN c.RootCAData ELSE file.data
        tls == [ServerName |-> host,
                InsecureSkipVerify |-> c.InsecureSkipVerify,
                RootCAs |-> IF wantCA THEN data ELSE "system"]
        us == parseScope(c.UserSearch.Scope)
        gs == parseScope(c.GroupSearch.Scope)
    IN  IF c.Host.name = "" /\ c.Host.port = ""
          THEN fail(c, ConfigError("missing required field", "host"))
        ELSE IF c.UserSearch.BaseDN = ""
          THEN fail(c, ConfigError("missing required field", "userSearch.baseDN"))
        ELSE IF c.UserSearch.Username = ""
          THEN fail(c, ConfigError("missing required field", "userSearch.username"))
        ELSE IF wantCA /\ c.RootCAData = "" /\ file.err
          THEN fail(c2, ConfigError("read ca file", c.RootCA))
        ELSE IF wantCA /\ ~AppendCertsFromPEM(data)
          THEN fail(c2, ConfigError("no certs found in ca file", c.RootCA))
        ELSE IF ~us.ok
          THEN fail(c2, ConfigError("userSearch.Scope unknown value", c.UserSearch.Scope))
        ELSE IF ~gs.ok
          THEN fail(c2, ConfigError("userSearch.Scope unknown value", c.GroupSearch.Scope))
        ELSE [conn |-> [exists |-> TRUE, Config |-> c2,
                        userSearchScope |-> us.scope,
                        groupSearchScope |-> gs.scope,
                        tlsConfig |-> tls],
              err |-> NoError, cfg |-> c2]

-----------------------------------------------------------------------------
(* Entries, identities and filters *)

NoBytes == [t |-> "empty"]

ZeroIdentity ==
    [UserID |-> <<>>, Username |-> <<>>, Email |-> <<>>,
     EmailVerified |-> FALSE, Groups |-> <<>>, ConnectorData |-> NoBytes]

RECURSIVE getAttrFrom(_, _, _)
getAttrFrom(as, e, name) ==
    IF as = <<>>
      THEN IF name = "DN" THEN e.DN ELSE <<>>
    ELSE IF Head(as).Name # name
      THEN getAttrFrom(Tail(as), e, name)
    ELSE IF Len(Head(as).Values) = 0
      THEN <<>>
    ELSE Head(as).Values[1]

getAttr(e, name) == getAttrFrom(e.Attributes, e, name)

\* identityFromEntry reading the email from the id attribute.
identityFromEntryCopyPaste(c, user) ==
    LET us == c.Config.UserSearch
        id == getAttr(user, us.IDAttr)
        email == getAttr(user, us.IDAttr)
        name == IF us.NameAttr # "" THEN getAttr(user, us.NameAttr) ELSE <<>>
        missing ==
            (IF id = <<>> THEN <<us.IDAttr>> ELSE <<>>) \o
            (IF email = <<>> THEN <<us.EmailAttr>> ELSE <<>>) \o
            (IF us.NameAttr # "" /\ name = <<>> THEN <<us.NameAttr>> ELSE <<>>)
    IN  IF Len(missing) # 0
          THEN [ident |-> ZeroIdentity,
                err |-> [kind |-> "missing required attribute(s)",
                         dn |-> user.DN, missing |-> missing]]
          ELSE [ident |-> [ZeroIdentity EXCEPT !.UserID = id, !.Email = email,
                                               !.Username = name],
                err |-> NoError]

\* identityFromEntry failing on the first attribute it misses.
identityFromEntryFirstMissing(c, user) ==
    LET us == c.Config.UserSearch
        id == getAttr(user, us.IDAttr)
        email == getAttr(user, us.EmailAttr)
        name == IF us.NameAttr # "" THEN getAttr(user, us.NameAttr) ELSE <<>>
        missing ==
            IF id = <<>> THEN <<us.IDAttr>>
            ELSE IF email = <<>> THEN <<us.EmailAttr>>
            ELSE IF us.NameAttr # "" /\ name = <<>> THEN <<us.NameAttr>>
            ELSE <<>>
    IN  IF Len(missing) # 0
          THEN [ident |-> ZeroIdentity,
                err |-> [kind |-> "missing required attribute(s)",
                         dn |-> user.DN, missing |-> missing]]
          ELSE [ident |-> [ZeroIdentity EXCEPT !.UserID = id, !.Email = email,
                                               !.Username = name],
                err |-> NoError]

\* ldapConnector.identityFromEntry
identityFromEntry(c, user) ==
    LET us == c.Config.UserSearch
        id == getAttr(user, us.IDAttr)
        email == getAttr(user, us.EmailAttr)
        name == IF us.NameAttr # "" THEN getAttr(user, us.NameAttr) ELSE <<>>
        missing ==
            (IF id = <<>> THEN <<us.IDAttr>> ELSE <<>>) \o
            (IF email = <<>> THEN <<us.EmailAttr>> ELSE <<>>) \o
            (IF us.NameAttr # "" /\ name = <<>> THEN <<us.NameAttr>> ELSE <<>>)
    IN  IF Len(missing) # 0
          THEN [ident |-> ZeroIdentity,
                err |-> [kind |-> "missing required attribute(s)",
                         dn |-> user.DN, missing |-> missing]]
          ELSE [ident |-> [ZeroIdentity EXCEPT !.UserID = id, !.Email = email,
                                               !.Username = name],
                err |-> NoError]

\* ldap.EscapeFilter, byte by byte: the bytes ( ) * \ NUL and those above
\* 0x7f become a backslash and two hexadecimal digits.
mustEscape(b) == b \in {"(", ")", "*", "\\", "<00>", "<ff>", "<ef>", "<bf>", "<bd>"}

hexOf(b) ==
    CASE b = "(" -> <<"2", "8">>
      [] b = ")" -> <<"2", "9">>
      [] b = "*" -> <<"2", "a">>
      [] b = "\\" -> <<"5", "c">>
      [] b = "<00>" -> <<"0", "0">>
      [] b = "<ff>" -> <<"f", "f">>
      [] b = "<ef>" -> <<"e", "f">>
      [] b = "<bf>" -> <<"b", "f">>
      [] b = "<bd>" -> <<"b", "d">>

\* The bytes of a Go string: U+FFFD is three bytes in UTF-8.
RECURSIVE utf8Bytes(_)
utf8Bytes(v) ==
    IF v = <<>> THEN <<>>
    ELSE (IF Head(v) = "<fffd>" THEN <<"<ef>", "<bf>", "<bd>">> ELSE <<Head(v)>>)
         \o utf8Bytes(Tail(v))

RECURSIVE escapeBytes(_)
escapeBytes(v) ==
    IF v = <<>> THEN <<>>
    ELSE (IF mustEscape(Head(v)) THEN <<"\\">> \o hexOf(Head(v)) ELSE <<Head(v)>>)
         \o escapeBytes(Tail(v))

EscapeFilter(v) == escapeBytes(utf8Bytes(v))

\* The Go string made of the given bytes.
RECURSIVE Str(_)
Str(v) == IF v = <<>> THEN "" ELSE Head(v) \o Str(Tail(v))

\* The filter built with the value as it came.
buildFilterUnescaped(base, attr, value) ==
    LET filter == "(" \o attr \o "=" \o Str(value) \o ")"
    IN  IF base # "" THEN "(&" \o base \o filter \o ")" ELSE filter

\* fmt.Sprintf("(%s=%s)", attr, ldap.EscapeFilter(value)), and-ed with the
\* configured filter when there is one.
buildFilter(base, attr, value) ==
    LET filter == "(" \o attr \o "=" \o Str(EscapeFilter(value)) \o ")"
    IN  IF base # "" THEN "(&" \o base \o filter \o ")" ELSE filter

\* The search request of ldapConnector.userEntry.
userSearchRequest(c, username) ==
    LET us == c.Config.UserSearch
    IN  [BaseDN |-> us.BaseDN,
         Filter |-> buildFilter(us.Filter, us.Username, username),
         Scope |-> c.userSearchScope,
         Attributes |-> <<us.IDAttr, us.EmailAttr, c.Config.GroupSearch.UserAttr>>
                        \o (IF us.NameAttr # "" THEN <<us.NameAttr>> ELSE <<>>)]

\* userEntry reporting an empty response as an error.
userEntryZeroIsError(c, username, resp) ==
    LET filter == userSearchRequest(c, username).Filter
        n == Len(resp.Entries)
    IN  IF resp.err
          THEN [user |-> ZeroEntry, found |-> FALSE,
                err |-> [kind |-> "search failed", filter |-> filter, n |-> 0]]
        ELSE IF n = 1
          THEN [user |-> resp.Entries[1], found |-> TRUE, err |-> NoError]
        ELSE [user |-> ZeroEntry, found |-> FALSE,
              err |-> [kind |-> "filter returned multiple results",
                       filter |-> filter, n |-> n]]

\* userEntry taking the first entry of a response with several.
userEntryTakesFirst(c, username, resp) ==
    LET filter == userSearchRequest(c, username).Filter
        n == Len(resp.Entries)
    IN  IF resp.err
          THEN [user |-> ZeroEntry, found |-> FALSE,
                err |-> [kind |-> "search failed", filter |-> filter, n |-> 0]]
        ELSE IF n = 0
          THEN [user |-> ZeroEntry, found |-> FALSE, err |-> NoError]
        ELSE [user |-> resp.Entries[1], found |-> TRUE, err |-> NoError]

\* What ldapConnector.userEntry returns for a search outcome.
userEntry(c, username, resp) ==
    LET filter == userSearchRequest(c, username).Filter
        n == Len(resp.Entries)
    IN  IF resp.err
          THEN [user |-> ZeroEntry, found |-> FALSE,
                err |-> [kind |-> "search failed", filter |-> filter, n |-> 0]]
        ELSE IF n = 0
          THEN [user |-> ZeroEntry, found |-> FALSE, err |-> NoError]
        ELSE IF n = 1
          THEN [user |-> resp.Entries[1], found |-> TRUE, err |-> NoError]
        ELSE [user |-> ZeroEntry, found |-> FALSE,
              err |-> [kind |-> "filter returned multiple results",
                       filter |-> filter, n |-> n]]

\* The search request of ldapConnector.groups.
groupSearchRequest(c, user) ==
    LET gs == c.Config.GroupSearch
    IN  [BaseDN |-> gs.BaseDN,
         Filter |-> buildFilter(gs.Filter, gs.GroupAttr, getAttr(user, gs.UserAttr)),
         Scope |-> c.groupSearchScope,
         Attributes |-> <<gs.NameAttr>>]

\* The loop of ldapConnector.groups over the entries found.
RECURSIVE groupNames(_, _, _)
groupNames(c, groups, acc) ==
    IF groups = <<>> THEN [names |-> acc, err |-> NoError]
    ELSE LET name == getAttr(Head(groups), c.Config.GroupSearch.NameAttr)
         IN  IF name = <<>>
               THEN [names |-> <<>>,
                     err |-> [kind |-> "group entity missing required attribute",
                              dn |-> Head(groups).DN,
                              attr |-> c.Config.GroupSearch.NameAttr]]
               ELSE groupNames(c, Tail(groups), Append(acc, name))

-----------------------------------------------------------------------------
(* Refresh state: encoding/json on refreshData *)

ZeroData == [Username |-> <<>>, Entry |-> ZeroEntry]

\* encoding/json writes a string as valid UTF-8: a byte that is not part of
\* a valid encoding is replaced by U+FFFD.
jsonRune(b) == IF b = "<ff>" THEN "<fffd>" ELSE b

jsonString(v) == [i \in 1..Len(v) |-> jsonRune(v[i])]

jsonAttr(a) ==
    [Name |-> a.Name, Values |-> [i \in 1..Len(a.Values) |-> jsonString(a.Values[i])]]

jsonEntry(e) ==
    [DN |-> jsonString(e.DN),
     Attributes |-> [i \in 1..Len(e.Attributes) |-> jsonAttr(e.Attributes[i])]]

\* json.Marshal(refreshData{...}): the JSON document, as bytes.
Marshal(data) ==
    [t |-> "json",
     v |-> [username |-> jsonString(data.Username), entry |-> jsonEntry(data.Entry)]]

\* The error of encoding/json on bytes that are not a JSON document: no
\* bytes at all and a document that stops short end the input early, other
\* bytes hold a character no JSON value can start with.
jsonSyntaxError(bytes) ==
    IF bytes.t \in {"empty", "truncated"}
      THEN "unexpected end of JSON input"
      ELSE "invalid character"

\* json.Unmarshal(bytes, &data), its error as Refresh wraps it.
Unmarshal(bytes) ==
    IF bytes.t = "json"
      THEN [data |-> [Username |-> bytes.v.username, Entry |-> bytes.v.entry],
            err |-> NoError]
      ELSE [data |-> ZeroData,
            err |-> [kind |-> "failed to unmarshal internal data",
                     cause |-> jsonSyntaxError(bytes)]]

\* Opaque state a host may hand to Refresh without having got it from this
\* connector: none, bytes that are not JSON, a JSON document cut short, and
\* the JSON document {}.
ForeignData ==
    { NoBytes, [t |-> "garbage"], [t |-> "truncated"], Marshal(ZeroData),
      Marshal([Username |-> <<"a">>,
               Entry |-> [DN |-> <<"u", "a">>, Attributes |-> <<>>]]) }

-----------------------------------------------------------------------------
(* State *)

\* Without goroutines of its own the host calls one operation at a time.
NoDirectory == [users |-> <<>>, groups |-> <<>>, binds |-> <<>>]

LocInit ==
    [incorrectPass |-> FALSE, user |-> ZeroEntry, data |-> ZeroData,
     ident |-> ZeroIdentity, groups |-> <<>>]

NoCall ==
    [name |-> "none", s |-> [Groups |-> FALSE, OfflineAccess |-> FALSE],
     username |-> <<>>, password |-> <<>>, ident |-> ZeroIdentity]

NoRet == [op |-> "none", ident |-> ZeroIdentity, validPass |-> FALSE, err |-> NoError]

NoReq == [BaseDN |-> "", Filter |-> "", Scope |-> 0, Attributes |-> <<>>]

\* Directory operations, as recorded in trace.  A bind records the error it
\* returned as r, one of BindOutcomes.
Event(op, k, ok) ==
    [op |-> op, conn |-> k, ok |-> ok, dn |-> <<>>, pw |-> <<>>, r |-> BindOK,
     req |-> NoReq, entries |-> <<>>]
DialEvent(k, ok) == Event("dial", k, ok)
BindEvent(k, dn, pw, r) ==
    [Event("bind", k, r = BindOK) EXCEPT !.dn = dn, !.pw = pw, !.r = r]
SearchEvent(k, req, resp) ==
    [Event("search", k, ~resp.err) EXCEPT !.req = req, !.entries = resp.Entries]
CloseEvent(k) == Event("close", k, TRUE)

Init ==
    /\ cfg \in Configs
    /\ connector = NoConnector
    /\ openErr = NoError
    /\ pc = "new"
    /\ call = NoCall
    /\ loc = LocInit
    /\ doFn = "none"
    /\ doErr = NoError
    /\ conns = <<>>
    /\ trace = <<>>
    /\ ret = NoRet
    /\ nrefresh = 0
    /\ directory = NoDirectory
    /\ threads = <<>>
    /\ frames = <<>>
    /\ interleaved = FALSE
    /\ issued = NoBytes
    /\ chained = FALSE

\* Config.OpenConnector
OpenConnector ==
    /\ pc = "new"
    /\ LET r == OpenConnectorOn(cfg)
       IN  /\ connector' = r.conn
           /\ openErr' = r.err
           /\ cfg' = r.cfg
           /\ pc' = IF r.conn.exists THEN "idle" ELSE "failed"
    /\ UNCHANGED <<call, loc, doFn, doErr, conns, trace, ret, nrefresh, issued, chained>>
    /\ UNCHANGED concVars

-----------------------------------------------------------------------------
(* ldapConnector.do *)

\* do() returning without closing its connection.
deferCloseLeak(cs) == cs

\* defer conn.Close(): the connection do() dialed is closed when it returns.
deferClose(cs) == [cs EXCEPT ![Len(cs)].open = FALSE]

\* do() taking an invalid-credentials result of its bind for a success.
bindFailedUnlessInvalidCredentials(r) ==
    r # BindOK /\ r.ResultCode # LDAPResultInvalidCredentials

\* The test on the error of the service-account bind.
bindFailed(r) == r # BindOK

\* do() binding as the end user when Login runs it for the group search.
doBindCredentialsOfLogin(c) ==
    IF doFn = "groups" /\ call.name = "Login"
      THEN [dn |-> loc.user.DN, pw |-> call.password]
      ELSE [dn |-> c.Config.BindDN, pw |-> c.Config.BindPW]

\* do() binding as the refreshed user when it runs for Refresh.
doBindCredentialsOfUser(c) ==
    IF call.name = "Refresh"
      THEN [dn |-> loc.data.Entry.DN, pw |-> c.Config.BindPW]
      ELSE [dn |-> c.Config.BindDN, pw |-> c.Config.BindPW]

\* The credentials of the bind do() performs.
doBindCredentials(c) == [dn |-> c.Config.BindDN, pw |-> c.Config.BindPW]

\* do() returns err after running the deferred Close; tr is the trace so far.
ReturnFromDo(tr, err) ==
    /\ conns' = deferClose(conns)
    /\ trace' = Append(tr, CloseEvent(Len(conns)))
    /\ doErr' = err
    /\ pc' = "do_ret"

\* ldap.Dial or ldap.DialTLS
DoDial ==
    /\ pc = "do_dial"
    /\ \E o \in DialOutcomes :
         IF o = "ok"
           THEN /\ conns' = Append(conns, [open |-> TRUE,
                                           tls |-> ~connector.Config.InsecureNoSSL,
                                           addr |-> connector.Config.Host])
                /\ trace' = Append(trace, DialEvent(Len(conns) + 1, TRUE))
                /\ pc' = "do_bind"
                /\ UNCHANGED doErr
           ELSE /\ trace' = Append(trace, DialEvent(0, FALSE))
                /\ doErr' = [kind |-> "failed to connect"]
                /\ pc' = "do_ret"
                /\ UNCHANGED conns
    /\ UNCHANGED <<cfg, connector, openErr, call, loc, doFn, ret, nrefresh, issued, chained>>
    /\ UNCHANGED concVars

\* conn.Bind(c.BindDN, c.BindPW), then f(conn)
DoBind ==
    /\ pc = "do_bind"
    /\ \E r \in BindOutcomes :
         LET cred == doBindCredentials(connector)
             tr == Append(trace, BindEvent(Len(conns), cred.dn, cred.pw, r))
         IN  IF bindFailed(r)
               THEN ReturnFromDo(tr, [kind |-> "initial bind failed",
                                      dn |-> connector.Config.BindDN, cause |-> r])
               ELSE /\ trace' = tr
                    /\ pc' = IF doFn = "groups" THEN "f_search" ELSE "f_userEntry"
                    /\ UNCHANGED <<conns, doErr>>
    /\ UNCHANGED <<cfg, connector, openErr, call, loc, doFn, ret, nrefresh, issued, chained>>
    /\ UNCHANGED concVars

-----------------------------------------------------------------------------
(* ldapConnector.Login *)

\* A call returns to the host.
Return(op, ident, validPass, err) ==
    /\ ret' = [op |-> op, ident |-> ident, validPass |-> validPass, err |-> err]
    /\ pc' = "idle"
    /\ issued' = IF op # "Login" THEN issued
                 ELSE IF err = NoError /\ validPass THEN ident.ConnectorData
                 ELSE NoBytes
    /\ chained' = IF op = "Login" THEN err = NoError /\ validPass
                  ELSE chained /\ err = NoError

\* A call starts: nothing is dialed yet.
Enter(c, l, fn) ==
    /\ pc' = "do_dial"
    /\ call' = c
    /\ loc' = l
    /\ doFn' = fn
    /\ doErr' = NoError
    /\ conns' = <<>>
    /\ trace' = <<>>
    /\ ret' = NoRet

\* The host calls Login.
Login ==
    /\ pc = "idle"
    /\ \E s \in Scopes, username \in Usernames, password \in Passwords :
         Enter([name |-> "Login", s |-> s, username |-> username,
                password |-> password, ident |-> ZeroIdentity],
               LocInit, "login")
    /\ nrefresh' = 0
    /\ issued' = NoBytes
    /\ chained' = FALSE
    /\ UNCHANGED <<cfg, connector, openErr>>
    /\ UNCHANGED concVars

\* Login taking every protocol error of the bind for a wrong password.
isInvalidCredentialsAnyCode(r) == r.type = "ldap.Error"

\* The test of Login on the error of the bind as the user.
isInvalidCredentials(r) ==
    r.type = "ldap.Error" /\ r.ResultCode = LDAPResultInvalidCredentials

\* The closure of Login, up to the bind as the user: c.userEntry(conn, username)
LoginUserEntry ==
    /\ pc = "f_userEntry"
    /\ doFn = "login"
    /\ \E resp \in SearchOutcomes(UserEntries) :
         LET req == userSearchRequest(connector, call.username)
             r == userEntry(connector, call.username, resp)
             tr == Append(trace, SearchEvent(Len(conns), req, resp))
         IN  IF r.err # NoError
               THEN ReturnFromDo(tr, r.err) /\ UNCHANGED loc
             ELSE IF ~r.found
               THEN /\ loc' = [loc EXCEPT !.incorrectPass = TRUE]
                    /\ ReturnFromDo(tr, NoError)
             ELSE /\ loc' = [loc EXCEPT !.user = r.user]
                  /\ trace' = tr
                  /\ pc' = "f_bind"
                  /\ UNCHANGED <<conns, doErr>>
    /\ UNCHANGED <<cfg, connector, openErr, call, doFn, ret, nrefresh, issued, chained>>
    /\ UNCHANGED concVars

\* The closure of Login: conn.Bind(user.DN, password)
\* Login letting a bind that failed for another reason pass.
userBindErrorIgnored(r, dn) == NoError

\* The error of Login for a bind as the user that failed for a reason other
\* than invalid credentials.
userBindError(r, dn) == [kind |-> "failed to bind as dn", dn |-> dn, cause |-> r]

LoginBind ==
    /\ pc = "f_bind"
    /\ \E r \in BindOutcomes :
         LET tr == Append(trace, BindEvent(Len(conns), loc.user.DN, call.password, r))
         IN  IF r = BindOK
               THEN ReturnFromDo(tr, NoError) /\ UNCHANGED loc
             ELSE IF isInvalidCredentials(r)
               THEN /\ loc' = [loc EXCEPT !.incorrectPass = TRUE]
                    /\ ReturnFromDo(tr, NoError)
             ELSE /\ ReturnFromDo(tr, userBindError(r, loc.user.DN))
                  /\ UNCHANGED loc
    /\ UNCHANGED <<cfg, connector, openErr, call, doFn, ret, nrefresh, issued, chained>>
    /\ UNCHANGED concVars

\* The end of Login: the refresh state is attached when offline access is asked.
withConnectorData(s, username, user, ident) ==
    IF s.OfflineAccess
      THEN [ident EXCEPT !.ConnectorData =
                Marshal([Username |-> username, Entry |-> user])]
      ELSE ident

loginIdentity(ident) == withConnectorData(call.s, call.username, loc.user, ident)

\* Login after do() returned.
LoginAfterDo ==
    /\ pc = "do_ret"
    /\ doFn = "login"
    /\ LET r == identityFromEntry(connector, loc.user)
       IN  IF doErr # NoError
             THEN Return("Login", ZeroIdentity, FALSE, doErr)
                  /\ UNCHANGED <<loc, doFn>>
           ELSE IF loc.incorrectPass
             THEN Return("Login", ZeroIdentity, FALSE, NoError)
                  /\ UNCHANGED <<loc, doFn>>
           ELSE IF r.err # NoError
             THEN Return("Login", ZeroIdentity, FALSE, r.err)
                  /\ UNCHANGED <<loc, doFn>>
           ELSE IF call.s.Groups
             THEN /\ loc' = [loc EXCEPT !.ident = r.ident]
                  /\ doFn' = "groups"
                  /\ pc' = "do_dial"
                  /\ UNCHANGED <<ret, issued, chained>>
           ELSE Return("Login", loginIdentity(r.ident), TRUE, NoError)
                /\ UNCHANGED <<loc, doFn>>
    /\ UNCHANGED <<cfg, connector, openErr, call, doErr, conns, trace, nrefresh>>
    /\ UNCHANGED concVars

-----------------------------------------------------------------------------
(* ldapConnector.groups *)

\* The closure of groups: conn.Search(req)
GroupsSearch ==
    /\ pc = "f_search"
    /\ \E resp \in SearchOutcomes(GroupEntries) :
         LET req == groupSearchRequest(connector, loc.user)
             tr == Append(trace, SearchEvent(Len(conns), req, resp))
         IN  IF resp.err
               THEN ReturnFromDo(tr, [kind |-> "search failed"]) /\ UNCHANGED loc
               ELSE /\ loc' = [loc EXCEPT !.groups = resp.Entries]
                    /\ ReturnFromDo(tr, NoError)
    /\ UNCHANGED <<cfg, connector, openErr, call, doFn, ret, nrefresh, issued, chained>>
    /\ UNCHANGED concVars

\* groups building its list from the last entry found to the first.
groupsResultReversed(c, err, groups) ==
    IF err # NoError THEN [names |-> <<>>, err |-> err]
    ELSE groupNames(c, [i \in 1..Len(groups) |-> groups[Len(groups) + 1 - i]], <<>>)

\* groups leaving out the entries that have no name.
groupsResultSkipsNameless(c, err, groups) ==
    IF err # NoError THEN [names |-> <<>>, err |-> err]
    ELSE groupNames(c, SelectSeq(groups,
                LAMBDA g : getAttr(g, c.Config.GroupSearch.NameAttr) # <<>>), <<>>)

\* What groups returns once its do() returned err.
groupsResult(c, err, groups) ==
    IF err # NoError THEN [names |-> <<>>, err |-> err]
    ELSE groupNames(c, groups, <<>>)

\* Login after groups returned.
LoginAfterGroups ==
    /\ pc = "do_ret"
    /\ doFn = "groups"
    /\ call.name = "Login"
    /\ LET g == groupsResult(connector, doErr, loc.groups)
       IN  IF g.err # NoError
             THEN Return("Login", ZeroIdentity, FALSE,
                         [kind |-> "failed to query groups", cause |-> g.err])
             ELSE Return("Login", loginIdentity([loc.ident EXCEPT !.Groups = g.names]),
                         TRUE, NoError)
    /\ UNCHANGED <<cfg, connector, openErr, call, loc, doFn, doErr, conns, trace, nrefresh>>
    /\ UNCHANGED concVars

-----------------------------------------------------------------------------
(* ldapConnector.Refresh *)

\* Identities the host may pass to Refresh: the one the last call returned,
\* or one it stored earlier, carrying state this connector did not just issue.
RefreshInputs ==
    (IF ret.op # "none" /\ ret.err = NoError /\ (ret.op = "Login" => ret.validPass)
       THEN {ret.ident} ELSE {})
    \cup { [ZeroIdentity EXCEPT !.UserID = <<"a">>, !.Email = <<"m">>,
                                !.ConnectorData = d] : d \in ForeignData }

\* The host calls Refresh: json.Unmarshal(ident.ConnectorData, &data)
Refresh ==
    /\ pc = "idle"
    /\ nrefresh < MaxRefreshes
    /\ \E s \in Scopes, ident \in RefreshInputs :
         LET u == Unmarshal(ident.ConnectorData)
             c == [name |-> "Refresh", s |-> s, username |-> <<>>,
                   password |-> <<>>, ident |-> ident]
         IN  IF u.err # NoError
               THEN /\ ret' = [op |-> "Refresh", ident |-> ident,
                               validPass |-> FALSE, err |-> u.err]
                    /\ call' = c
                    /\ loc' = LocInit
                    /\ conns' = <<>>
                    /\ trace' = <<>>
                    /\ chained' = FALSE
                    /\ UNCHANGED <<pc, doFn, doErr>>
               ELSE /\ Enter(c, [LocInit EXCEPT !.data = u.data], "refresh")
                    /\ chained' = (chained /\ ident = ret.ident)
    /\ nrefresh' = nrefresh + 1
    /\ UNCHANGED <<cfg, connector, openErr, issued>>
    /\ UNCHANGED concVars

\* The closure of Refresh: c.userEntry(conn, data.Username)
RefreshUserEntry ==
    /\ pc = "f_userEntry"
    /\ doFn = "refresh"
    /\ \E resp \in SearchOutcomes(UserEntries) :
         LET req == userSearchRequest(connector, loc.data.Username)
             r == userEntry(connector, loc.data.Username, resp)
             tr == Append(trace, SearchEvent(Len(conns), req, resp))
         IN  IF r.err # NoError
               THEN ReturnFromDo(tr, r.err) /\ UNCHANGED loc
             ELSE IF ~r.found
               THEN ReturnFromDo(tr, [kind |-> "user not found",
                                      username |-> loc.data.Username])
                    /\ UNCHANGED loc
             ELSE /\ loc' = [loc EXCEPT !.user = r.user]
                  /\ ReturnFromDo(tr, NoError)
    /\ UNCHANGED <<cfg, connector, openErr, call, doFn, ret, nrefresh, issued, chained>>
    /\ UNCHANGED concVars

\* Refresh returning the new identity without the state of the old one.
keepConnectorDataDropped(newIdent, ident) == newIdent

\* newIdent.ConnectorData = ident.ConnectorData
keepConnectorData(newIdent, ident) ==
    [newIdent EXCEPT !.ConnectorData = ident.ConnectorData]

\* Refresh accepting any entry found for the username.
sameDNUnchecked(user, data) == TRUE

\* The comparison of the DN found with the DN of the refresh state.
sameDN(user, data) == user.DN = data.Entry.DN

\* Refresh after do() returned.
RefreshAfterDo ==
    /\ pc = "do_ret"
    /\ doFn = "refresh"
    /\ LET r == identityFromEntry(connector, loc.user)
           newIdent == keepConnectorData(r.ident, call.ident)
       IN  IF doErr # NoError
             THEN Return("Refresh", call.ident, FALSE, doErr)
                  /\ UNCHANGED <<loc, doFn>>
           ELSE IF ~sameDN(loc.user, loc.data)
             THEN Return("Refresh", call.ident, FALSE,
                         [kind |-> "refresh expected DN",
                          username |-> loc.data.Username,
                          expected |-> loc.data.Entry.DN, got |-> loc.user.DN])
                  /\ UNCHANGED <<loc, doFn>>
           ELSE IF r.err # NoError
             THEN Return("Refresh", call.ident, FALSE, r.err)
                  /\ UNCHANGED <<loc, doFn>>
           ELSE IF call.s.Groups
             THEN /\ loc' = [loc EXCEPT !.ident = newIdent]
                  /\ doFn' = "groups"
                  /\ pc' = "do_dial"
                  /\ UNCHANGED <<ret, issued, chained>>
           ELSE Return("Refresh", newIdent, FALSE, NoError)
                /\ UNCHANGED <<loc, doFn>>
    /\ UNCHANGED <<cfg, connector, openErr, call, doErr, conns, trace, nrefresh>>
    /\ UNCHANGED concVars

\* Refresh after groups returned.
RefreshAfterGroups ==
    /\ pc = "do_ret"
    /\ doFn = "groups"
    /\ call.name = "Refresh"
    /\ LET g == groupsResult(connector, doErr, loc.groups)
       IN  IF g.err # NoError
             THEN Return("Refresh", ZeroIdentity, FALSE,
                         [kind |-> "failed to query groups", cause |-> g.err])
             ELSE Return("Refresh", [loc.ident EXCEPT !.Groups = g.names],
                         FALSE, NoError)
    /\ UNCHANGED <<cfg, connector, openErr, call, loc, doFn, doErr, conns, trace, nrefresh>>
    /\ UNCHANGED concVars

-----------------------------------------------------------------------------

Next ==
    \/ OpenConnector
    \/ Login
    \/ Refresh
    \/ DoDial
    \/ DoBind
    \/ LoginUserEntry
    \/ LoginBind
    \/ LoginAfterDo
    \/ GroupsSearch
    \/ LoginAfterGroups
    \/ RefreshUserEntry
    \/ RefreshAfterDo
    \/ RefreshAfterGroups

Spec == Init /\ [][Next]_vars

TypeOK ==
    /\ pc \in {"new", "failed", "idle", "do_dial", "do_bind", "f_userEntry",
               "f_bind", "f_search", "do_ret"}
    /\ nrefresh \in 0..MaxRefreshes
    /\ chained \in BOOLEAN

-----------------------------------------------------------------------------
(* Vocabulary of the properties: what the trace of a call shows *)

Cfg == connector.Config

\* A call has returned to the host.
Returned(op) == pc = "idle" /\ ret.op = op

\* Positions of the trace.
Binds == { i \in DOMAIN trace : trace[i].op = "bind" }
Searches == { i \in DOMAIN trace : trace[i].op = "search" }

\* The bind do() issues right after dialing, against any later bind.
IsInitialBind(i) == i \in Binds /\ i > 1 /\ trace[i - 1].op = "dial"
IsLaterBind(i) == i \in Binds /\ ~IsInitialBind(i)

\* The bind uses the credentials of the service account.
AsServiceAccount(e) == e.dn = Cfg.BindDN /\ e.pw = Cfg.BindPW

\* The user lookup runs in the first do() of a call, the group search in the
\* second one.
UserLookups == { i \in Searches : trace[i].conn = 1 }
GroupLookups == { i \in Searches : trace[i].conn = 2 }

\* The user lookup succeeded and returned n entries.
LookupReturned(n) ==
    \E i \in UserLookups : trace[i].ok /\ Len(trace[i].entries) = n

LookupReturnedMany ==
    \E i \in UserLookups : trace[i].ok /\ Len(trace[i].entries) > 1

\* The one entry the user lookup returned.
FoundEntry == trace[CHOOSE i \in UserLookups : TRUE].entries[1]

\* The bind with the found entry's DN and the supplied password, and its result.
UserBinds ==
    { i \in Binds : /\ IsLaterBind(i)
                    /\ trace[i].conn = 1
                    /\ trace[i].dn = FoundEntry.DN
                    /\ trace[i].pw = call.password }

UserBindSucceeded == LookupReturned(1) /\ \E i \in UserBinds : trace[i].ok

\* Attributes the configuration requires of a user entry, and those of them
\* the entry has no value for.
RequiredAttrs ==
    {Cfg.UserSearch.IDAttr, Cfg.UserSearch.EmailAttr}
    \cup (IF Cfg.UserSearch.NameAttr # "" THEN {Cfg.UserSearch.NameAttr} ELSE {})

MissingAttrs(e) == { a \in RequiredAttrs : getAttr(e, a) = <<>> }

\* The group resolution ran and succeeded: connection, service bind, search,
\* and a name on every group entry found.
GroupsResolved ==
    \E i \in GroupLookups :
        /\ trace[i].ok
        /\ \A j \in DOMAIN trace[i].entries :
               getAttr(trace[i].entries[j], Cfg.GroupSearch.NameAttr) # <<>>

LoginSucceededWith(e) ==
    /\ ret.err = NoError
    /\ ret.validPass
    /\ ret.ident.UserID = getAttr(e, Cfg.UserSearch.IDAttr)
    /\ ret.ident.Email = getAttr(e, Cfg.UserSearch.EmailAttr)

LoginRefused == ret.ident = ZeroIdentity /\ ~ret.validPass /\ ret.err = NoError

-----------------------------------------------------------------------------
(* Properties *)

\* C1 (as stated): a Login whose lookup returns exactly one entry, whose bind
\* as that entry with the supplied password succeeds, and whose entry has a
\* value for every required attribute, returns (identity, true, nil) with
\* UserID and Email read from the configured attributes of the entry.
C1_AsStated ==
    (/\ Returned("Login")
     /\ UserBindSucceeded
     /\ MissingAttrs(FoundEntry) = {})
    => LoginSucceededWith(FoundEntry)

\* C1 (amended): the same holds provided that, when group memberships are
\* requested, the group resolution succeeds as well.
C1_LoginSuccess ==
    (/\ Returned("Login")
     /\ UserBindSucceeded
     /\ MissingAttrs(FoundEntry) = {}
     /\ (call.s.Groups => GroupsResolved))
    => LoginSucceededWith(FoundEntry)

C1_Witness ==
    /\ Returned("Login")
    /\ UserBindSucceeded
    /\ MissingAttrs(FoundEntry) = {}
    /\ call.s.Groups
    /\ GroupsResolved
    /\ Len(ret.ident.Groups) = 2
    /\ ret.validPass

\* C2: a Login whose user lookup succeeds with zero entries returns
\* (zero identity, false, nil), and that call issues no bind other than the
\* service-account bind of the lookup and no group search.
C2_NotFoundIsRefused ==
    (call.name = "Login" /\ LookupReturned(0))
    => /\ \A i \in Binds : IsInitialBind(i) /\ AsServiceAccount(trace[i])
       /\ Cardinality(Binds) = 1
       /\ GroupLookups = {}
       /\ Len(conns) = 1
       /\ Returned("Login") => LoginRefused

C2_Witness == Returned("Login") /\ LookupReturned(0) /\ call.s.Groups

\* C3: when exactly one entry is found and the bind as that entry fails,
\* Login returns (zero identity, false, nil) if the failure is the protocol
\* result 'invalid credentials', and a non-nil error for any other failure.
C3_BadPasswordVersusFailure ==
    (Returned("Login") /\ LookupReturned(1))
    => \A i \in UserBinds :
          /\ (/\ trace[i].r.type = "ldap.Error"
              /\ trace[i].r.ResultCode = LDAPResultInvalidCredentials)
             => LoginRefused
          /\ (/\ ~trace[i].ok
              /\ ~(/\ trace[i].r.type = "ldap.Error"
                   /\ trace[i].r.ResultCode = LDAPResultInvalidCredentials))
             => ret.err # NoError

C3_Witness ==
    /\ Returned("Login")
    /\ LookupReturned(1)
    /\ \E i \in UserBinds : trace[i].r.ResultCode = LDAPResultInvalidCredentials
    /\ LoginRefused

\* C4: a Login whose single matched entry has no value for some required
\* attribute, the password being correct, returns a non-nil error, false and
\* the zero identity, and the error names every attribute that is missing.
C4_IncompleteEntry ==
    (/\ Returned("Login")
     /\ UserBindSucceeded
     /\ MissingAttrs(FoundEntry) # {})
    => /\ ret.err.kind = "missing required attribute(s)"
       /\ { ret.err.missing[k] : k \in DOMAIN ret.err.missing } = MissingAttrs(FoundEntry)
       /\ ~ret.validPass
       /\ ret.ident = ZeroIdentity

C4_Witness ==
    /\ Returned("Login")
    /\ UserBindSucceeded
    /\ Cardinality(MissingAttrs(FoundEntry)) = 3
    /\ Len(ret.err.missing) = 3

\* C5: a Login or Refresh whose user lookup returns more than one entry
\* returns a non-nil error, and no bind as any of the matched entries is
\* attempted: the only bind of the call is the service-account bind.
C5_AmbiguousUser ==
    (call.name \in {"Login", "Refresh"} /\ LookupReturnedMany)
    => /\ \A i \in Binds : IsInitialBind(i) /\ AsServiceAccount(trace[i])
       /\ Cardinality(Binds) = 1
       /\ pc = "idle" => ret.err # NoError /\ ~ret.validPass

C5_Witness == Returned("Login") /\ LookupReturnedMany /\ ret.err # NoError

\* C6: Refresh returns a nil error only if the lookup of the cached username
\* returned exactly one entry whose DN equals the DN cached in the refresh
\* state; so zero entries and a different DN are errors.
C6_RefreshNeedsSameDN ==
    (Returned("Refresh") /\ ret.err = NoError)
    => /\ LookupReturned(1)
       /\ FoundEntry.DN = Unmarshal(call.ident.ConnectorData).data.Entry.DN
       /\ \A i \in UserLookups :
              trace[i].req.Filter =
                  userSearchRequest(connector,
                      Unmarshal(call.ident.ConnectorData).data.Username).Filter

C6_Witness ==
    /\ Returned("Refresh")
    /\ ret.err = NoError
    /\ LookupReturned(1)
    /\ FoundEntry.DN # <<>>

\* A refresh that fails for the DN alone.
C6_MismatchWitness ==
    /\ Returned("Refresh")
    /\ LookupReturned(1)
    /\ FoundEntry.DN # Unmarshal(call.ident.ConnectorData).data.Entry.DN
    /\ ret.err # NoError

\* C7: in every execution of Refresh every bind issued is a service-account
\* bind, with the configured bindDN and bindPW, issued right after dialing.
C7_RefreshBindsOnlyAsService ==
    call.name = "Refresh"
    => \A i \in Binds : IsInitialBind(i) /\ AsServiceAccount(trace[i])

C7_Witness ==
    /\ Returned("Refresh")
    /\ ret.err = NoError
    /\ Cardinality(Binds) = 2
    /\ loc.data.Entry.DN # Cfg.BindDN

\* C8: a successful Refresh returns the opaque state of the identity passed
\* in; after consecutive successful Refresh calls, each given the identity
\* the previous call returned, the state is still the one Login issued.
C8_RefreshKeepsState ==
    (Returned("Refresh") /\ ret.err = NoError)
    => /\ ret.ident.ConnectorData = call.ident.ConnectorData
       /\ chained => ret.ident.ConnectorData = issued

C8_Witness ==
    /\ Returned("Refresh")
    /\ ret.err = NoError
    /\ chained
    /\ nrefresh = 2
    /\ issued.t = "json"
    /\ ret.ident.ConnectorData = issued

\* C9: every connection do() dialed is closed when do() returns, on every
\* exit path; while do() runs only the connection it dialed is open, and when
\* a call returns none of its connections is open.
C9_ConnectionsClosed ==
    /\ pc \in {"do_ret", "do_dial", "idle"} => \A k \in DOMAIN conns : ~conns[k].open
    /\ \A k \in DOMAIN conns : conns[k].open => k = Len(conns)
    /\ \A k \in DOMAIN conns :
          ~conns[k].open => \E i \in DOMAIN trace : trace[i] = CloseEvent(k)

C9_Witness ==
    /\ Returned("Login")
    /\ Len(conns) = 2
    /\ \A k \in DOMAIN conns : ~conns[k].open
    /\ \E i \in Binds : IsInitialBind(i) /\ ~trace[i].ok

\* C10: after a failed service-account bind, whatever its result code, the
\* operation given to do() is not invoked (no search and no further bind on
\* that connection), and Login returns a non-nil error, never (false, nil).
C10_ServiceBindFailure ==
    \A i \in Binds :
        (IsInitialBind(i) /\ ~trace[i].ok)
        => /\ \A j \in Binds \cup Searches : j > i => trace[j].conn # trace[i].conn
           /\ Returned("Login") => (ret.err # NoError /\ ~ret.validPass)

C10_Witness ==
    /\ Returned("Login")
    /\ ret.err # NoError
    /\ \E i \in Binds : /\ IsInitialBind(i)
                        /\ trace[i].r.ResultCode = LDAPResultInvalidCredentials

\* The group search succeeded; these are the entries of its response.
GroupSearchDone == \E i \in GroupLookups : trace[i].ok
GroupsFound == trace[CHOOSE i \in GroupLookups : TRUE].entries

GroupName(g) == getAttr(g, Cfg.GroupSearch.NameAttr)

\* C11: when the group search succeeds and every entry found has a name, the
\* call returns without error one group name per entry, in response order,
\* each the first value of the entry's name attribute; with no entry found
\* the list is empty.
C11_GroupNamesInOrder ==
    (/\ pc = "idle"
     /\ ret.op \in {"Login", "Refresh"}
     /\ GroupSearchDone
     /\ \A j \in DOMAIN GroupsFound : GroupName(GroupsFound[j]) # <<>>)
    => /\ ret.err = NoError
       /\ Len(ret.ident.Groups) = Len(GroupsFound)
       /\ \A j \in DOMAIN GroupsFound : ret.ident.Groups[j] = GroupName(GroupsFound[j])

C11_Witness ==
    /\ Returned("Login")
    /\ GroupSearchDone
    /\ Len(GroupsFound) = 2
    /\ ret.ident.Groups = << <<"y">>, <<"x">> >>

\* A call that found no group returns an empty list and no error.
C11_NoGroupWitness ==
    /\ Returned("Refresh")
    /\ GroupSearchDone
    /\ GroupsFound = <<>>
    /\ ret.err = NoError
    /\ ret.ident.Groups = <<>>

\* C12: when some entry found by the group search has no name, whatever its
\* position, the call fails and returns no group at all; a Login that asked
\* for groups returns (zero identity, false, error) with a correct password.
C12_MissingGroupName ==
    (/\ pc = "idle"
     /\ ret.op \in {"Login", "Refresh"}
     /\ GroupSearchDone
     /\ \E j \in DOMAIN GroupsFound : GroupName(GroupsFound[j]) = <<>>)
    => /\ ret.err.kind = "failed to query groups"
       /\ ret.err.cause.kind = "group entity missing required attribute"
       /\ ret.ident = ZeroIdentity
       /\ ~ret.validPass

C12_Witness ==
    /\ Returned("Login")
    /\ UserBindSucceeded
    /\ GroupSearchDone
    /\ Len(GroupsFound) = 2
    /\ GroupName(GroupsFound[1]) # <<>>
    /\ GroupName(GroupsFound[2]) = <<>>
    /\ ret.err # NoError

\* The opaque state of the identity passed to Refresh holds bytes, and they
\* are not a JSON document.
StateUndecodable == call.ident.ConnectorData.t \notin {"json", "empty"}

\* What Refresh returns for an identity that carries no state at all, as
\* Login issues it when offline access was not requested.
RefreshWithoutState == Unmarshal(NoBytes).err

\* C13: Refresh called with state that cannot be decoded returns an error,
\* and the error differs from what Refresh returns for an identity without
\* refresh state.
C13_AsStated ==
    (Returned("Refresh") /\ StateUndecodable)
    => /\ ret.err # NoError
       /\ ret.err # RefreshWithoutState

\* Refresh does fail on every state it cannot decode, the empty one included,
\* before anything is dialed.
C13_UndecodableIsError ==
    (Returned("Refresh") /\ call.ident.ConnectorData.t # "json")
    => /\ ret.err.kind = "failed to unmarshal internal data"
       /\ trace = <<>>

\* The refresh state a successful Login returned, decoded as Refresh does.
IssuedState == Unmarshal(ret.ident.ConnectorData)

LoginSucceeded == Returned("Login") /\ ret.err = NoError /\ ret.validPass

\* C14: the state a successful Login encodes when offline access is asked
\* decodes to exactly the username passed to Login and the entry found, and
\* Login attaches state only when offline access is asked.
C14_AsStated ==
    LoginSucceeded
    => IF call.s.OfflineAccess
         THEN /\ IssuedState.err = NoError
              /\ IssuedState.data.Username = call.username
              /\ IssuedState.data.Entry = FoundEntry
         ELSE ret.ident.ConnectorData = NoBytes

\* Every byte of the sequence is part of valid UTF-8 text.
ValidUTF8(v) == \A i \in DOMAIN v : v[i] # "<ff>"

\* The round trip is exact for usernames that are valid UTF-8 (the entries
\* of the directory are), and the entry and the DN always come back.
C14_RoundTripOfText ==
    (LoginSucceeded /\ call.s.OfflineAccess)
    => /\ IssuedState.err = NoError
       /\ IssuedState.data.Entry = FoundEntry
       /\ ValidUTF8(call.username) => IssuedState.data.Username = call.username

\* The attribute the documentation of Config names for an unset mapping.
OrDefault(attr, default) == IF attr = "" THEN default ELSE attr

DocumentedIDAttr == OrDefault(cfg.UserSearch.IDAttr, "uid")
DocumentedEmailAttr == OrDefault(cfg.UserSearch.EmailAttr, "mail")

\* C15: with idAttr or emailAttr left unset, a Login for an entry that has
\* uid and mail values, with the correct password, succeeds with UserID read
\* from "uid" and Email read from "mail".
C15_AsStated ==
    (/\ Returned("Login")
     /\ cfg.UserSearch.IDAttr = "" \/ cfg.UserSearch.EmailAttr = ""
     /\ UserBindSucceeded
     /\ getAttr(FoundEntry, DocumentedIDAttr) # <<>>
     /\ getAttr(FoundEntry, DocumentedEmailAttr) # <<>>
     /\ cfg.UserSearch.NameAttr # "" => getAttr(FoundEntry, cfg.UserSearch.NameAttr) # <<>>
     /\ call.s.Groups => GroupsResolved)
    => /\ ret.err = NoError
       /\ ret.validPass
       /\ ret.ident.UserID = getAttr(FoundEntry, DocumentedIDAttr)
       /\ ret.ident.Email = getAttr(FoundEntry, DocumentedEmailAttr)

\* What the connector does instead: the unset names are looked up as they
\* are, no entry has a value for them, and Login fails naming them.
C15_UnsetAttrIsMissing ==
    (/\ Returned("Login")
     /\ cfg.UserSearch.IDAttr = ""
     /\ UserBindSucceeded)
    => /\ ret.err.kind = "missing required attribute(s)"
       /\ ret.err.missing[1] = ""
       /\ ~ret.validPass

\* The scope strings of the configuration, and the scope each stands for.
KnownScope(s) == s \in {"", "sub", "one"}
ScopeOf(s) == IF s = "one" THEN ScopeSingleLevel ELSE ScopeWholeSubtree

\* C16: for a configuration with a user-search or group-search scope other
\* than "", "sub", "one", OpenConnector returns an error and no connector,
\* and nothing is dialed, bound or searched; a connector that exists holds
\* the two scopes its configuration names.
C16_UnknownScopeRejected ==
    /\ (/\ pc # "new"
        /\ ~(KnownScope(cfg.UserSearch.Scope) /\ KnownScope(cfg.GroupSearch.Scope)))
       => /\ pc = "failed"
          /\ ~connector.exists
          /\ openErr # NoError
    /\ ~connector.exists => (trace = <<>> /\ conns = <<>> /\ call = NoCall)
    /\ connector.exists
       => /\ KnownScope(cfg.UserSearch.Scope)
          /\ KnownScope(cfg.GroupSearch.Scope)
          /\ connector.userSearchScope = ScopeOf(cfg.UserSearch.Scope)
          /\ connector.groupSearchScope = ScopeOf(cfg.GroupSearch.Scope)

C16_Witness ==
    /\ pc = "failed"
    /\ KnownScope(cfg.UserSearch.Scope)
    /\ ~KnownScope(cfg.GroupSearch.Scope)
    /\ openErr.kind = "userSearch.Scope unknown value"
    /\ openErr.arg = cfg.GroupSearch.Scope

\* How a directory reads the operand of an equality clause: a backslash and
\* two hex digits stand for one byte, and a bare parenthesis, asterisk,
\* backslash or NUL is not part of an operand.
unhex(h) ==
    CASE h = <<"2", "8">> -> <<"(">>
      [] h = <<"2", "9">> -> <<")">>
      [] h = <<"2", "a">> -> <<"*">>
      [] h = <<"5", "c">> -> <<"\\">>
      [] h = <<"0", "0">> -> <<"<00>">>
      [] h = <<"f", "f">> -> <<"<ff>">>
      [] h = <<"e", "f">> -> <<"<ef>">>
      [] h = <<"b", "f">> -> <<"<bf>">>
      [] h = <<"b", "d">> -> <<"<bd>">>
      [] OTHER -> <<>>

RECURSIVE OperandRead(_)
OperandRead(e) ==
    IF e = <<>> THEN [ok |-> TRUE, v |-> <<>>]
    ELSE IF Head(e) = "\\"
      THEN IF Len(e) >= 3 /\ unhex(SubSeq(e, 2, 3)) # <<>>
             THEN LET rest == OperandRead(SubSeq(e, 4, Len(e)))
                  IN  [ok |-> rest.ok, v |-> unhex(SubSeq(e, 2, 3)) \o rest.v]
             ELSE [ok |-> FALSE, v |-> <<>>]
    ELSE IF Head(e) \in {"(", ")", "*", "<00>"}
      THEN [ok |-> FALSE, v |-> <<>>]
    ELSE LET rest == OperandRead(Tail(e))
         IN  [ok |-> rest.ok, v |-> <<Head(e)>> \o rest.v]

\* The externally supplied value of a search of the trace, and the attribute
\* and base filter the configuration gives for it.
LookupUsername ==
    IF call.name = "Login" THEN call.username
    ELSE Unmarshal(call.ident.ConnectorData).data.Username

SearchValue(i) ==
    IF i \in UserLookups THEN LookupUsername
    ELSE getAttr(FoundEntry, Cfg.GroupSearch.UserAttr)

SearchAttr(i) ==
    IF i \in UserLookups THEN Cfg.UserSearch.Username ELSE Cfg.GroupSearch.GroupAttr

SearchBase(i) ==
    IF i \in UserLookups THEN Cfg.UserSearch.Filter ELSE Cfg.GroupSearch.Filter

HasMetacharacter(v) == \E k \in DOMAIN v : v[k] \in {"(", ")", "*", "\\", "<00>"}

\* C17: the filter of every search is (<attr>=<operand>) or
\* (&<base filter>(<attr>=<operand>)), where the operand is the escaped
\* username or link-attribute value, and a directory reads that operand as
\* exactly the bytes of the value: no byte of the value opens, closes or
\* alters a clause.
C17_ValueIsLiteralOperand ==
    \A i \in Searches :
        LET operand == EscapeFilter(SearchValue(i))
            clause == "(" \o SearchAttr(i) \o "=" \o Str(operand) \o ")"
        IN  /\ trace[i].req.Filter =
                 (IF SearchBase(i) = "" THEN clause
                  ELSE "(&" \o SearchBase(i) \o clause \o ")")
            /\ OperandRead(operand) = [ok |-> TRUE, v |-> utf8Bytes(SearchValue(i))]

C17_Witness ==
    /\ \E i \in UserLookups :
          /\ HasMetacharacter(SearchValue(i))
          /\ trace[i].req.Filter = "(uid=\\28\\ff)"
    /\ \E j \in GroupLookups :
          /\ HasMetacharacter(SearchValue(j))
          /\ trace[j].req.Filter = "(member=\\2a)"

C17_WitnessBaseFilter ==
    \E j \in GroupLookups :
        /\ HasMetacharacter(SearchValue(j))
        /\ trace[j].req.Filter = "(&(objectClass=group)(member=u\\28))"

\* The initial bind of the first connection of the call succeeded.
ServiceBindSucceeded ==
    \E i \in Binds : IsInitialBind(i) /\ trace[i].conn = 1 /\ trace[i].ok

\* C19: a Login returns validPassword = true only with a nil error and, in
\* that call, a successful initial bind, a user lookup that returned exactly
\* one entry, and a successful bind with that entry's DN and the supplied
\* password.
C19_ValidPasswordNeedsUserBind ==
    (Returned("Login") /\ ret.validPass)
    => /\ ret.err = NoError
       /\ ServiceBindSucceeded
       /\ LookupReturned(1)
       /\ UserBindSucceeded
       /\ \A i \in Binds : (IsLaterBind(i) /\ trace[i].conn = 1) => trace[i].ok

C19_Witness ==
    /\ Returned("Login")
    /\ ret.validPass
    /\ UserBindSucceeded
    /\ call.password = <<"p">>

\* Every other course of the directory's responses leaves validPassword false.
C19_OtherwiseFalse ==
    (Returned("Login") /\ ~UserBindSucceeded) => ~ret.validPass

\* The last bind before position i of the trace on the connection of event i.
BindsBefore(i) == { j \in Binds : j < i /\ trace[j].conn = trace[i].conn }
LastBindBefore(i) == CHOOSE j \in BindsBefore(i) : \A k \in BindsBefore(i) : k <= j

\* Connection k was dialed in this call.
Dialed(k) == \E d \in DOMAIN trace : trace[d] = DialEvent(k, TRUE)

\* C20: every search runs on a connection whose most recent bind is a
\* successful bind as the service account; a bind as the end user happens
\* only in Login, after the user lookup on the first connection, and no
\* search follows it there; the group lookup runs on a second dialed
\* connection on which nobody binds as the end user.
C20_SearchesAsServiceAccount ==
    /\ \A i \in Searches :
          /\ BindsBefore(i) # {}
          /\ IsInitialBind(LastBindBefore(i))
          /\ trace[LastBindBefore(i)].ok
          /\ AsServiceAccount(trace[LastBindBefore(i)])
    /\ \A b \in Binds :
          IsLaterBind(b)
          => /\ call.name = "Login"
             /\ trace[b].conn = 1
             /\ \E i \in UserLookups : i < b
             /\ \A i \in Searches : trace[i].conn = trace[b].conn => i < b
    /\ \A g \in Searches \ UserLookups :
          /\ trace[g].conn = 2
          /\ Dialed(1) /\ Dialed(2)
          /\ \A b \in Binds : trace[b].conn = 2 => IsInitialBind(b) /\ AsServiceAccount(trace[b])

C20_Witness ==
    /\ Returned("Login")
    /\ \E b \in Binds : IsLaterBind(b) /\ trace[b].ok /\ ~AsServiceAccount(trace[b])
    /\ \E g \in GroupLookups : trace[g].ok
    /\ Cfg.BindDN # <<>>

-----------------------------------------------------------------------------
(* Concurrent calls.  The host runs Login and Refresh from several          *)
(* goroutines against one connector.  The directory answers every request  *)
(* the same way for the whole behaviour, and every step of a call that      *)
(* reads or writes a variable of the call is an action of its own, so that  *)
(* the steps of different calls interleave in every order.                  *)

MaxThreads == 2   \* goroutines calling the connector
Threads == 1..MaxThreads

\* The variables of Login and Refresh kept on the connector: one frame for
\* every call.
frameOfConnector(t) == 1

\* user, incorrectPass, data and ident are declared in the body of Login and
\* Refresh: each call has a frame of its own.
frameOf(t) == t

UserWithDN(dn) == CHOOSE e \in UserEntries : e.DN = dn
GroupWithDN(dn) == CHOOSE e \in GroupEntries : e.DN = dn

Found(es) == [err |-> FALSE, Entries |-> es]
SearchFailed == [err |-> TRUE, Entries |-> <<>>]

\* Two directories: in the first every user has one entry and groups; in the
\* second a username is ambiguous, an entry lacks its id and the group
\* search fails.
Directories ==
    { [users |-> ("(uid=a)" :> Found(<< UserWithDN(<<"u", "a">>) >>))
                 @@ ("(uid=\\28\\ff)" :> Found(<< UserWithDN(<<"u", "(">>) >>)),
       groups |-> ("(member=a)" :> Found(<< GroupWithDN(<<"g", "1">>),
                                            GroupWithDN(<<"g", "2">>) >>))
                  @@ ("(member=\\2a)" :> Found(<< GroupWithDN(<<"g", "2">>) >>)),
       binds |-> (<< <<"s">>, <<"w">> >> :> BindOK)
                 @@ (<< <<"u", "a">>, <<"p">> >> :> BindOK)
                 @@ (<< <<"u", "(">>, <<"p">> >> :> BindOK)
                 @@ (<< <<"u", "(">>, <<>> >> :> BindOK)],
      [users |-> ("(uid=a)" :> Found(<< UserWithDN(<<"u", "a">>),
                                        UserWithDN(<<"u", "c">>) >>))
                 @@ ("(uid=\\28\\ff)" :> Found(<< UserWithDN(<<"u", "a">>) >>)),
       groups |-> ("(member=a)" :> SearchFailed),
       binds |-> (<< <<"s">>, <<"w">> >> :> BindOK)
                 @@ (<< <<"u", "a">>, <<"p">> >> :> BindOK)
                 @@ (<< <<"u", "a">>, <<>> >> :>
                        [type |-> "ldap.Error",
                         ResultCode |-> LDAPResultInsufficientAccessRights])] }

\* conn.Search and conn.Bind against the directory: a filter that matches
\* nothing finds no entry, credentials the directory does not know are invalid.
DirSearch(table, req) ==
    IF req.Filter \in DOMAIN table THEN table[req.Filter] ELSE Found(<<>>)

DirBind(dn, pw) ==
    IF <<dn, pw>> \in DOMAIN directory.binds THEN directory.binds[<<dn, pw>>]
    ELSE [type |-> "ldap.Error", ResultCode |-> LDAPResultInvalidCredentials]

\* The bind do() performs before running its closure.
DoBindResult ==
    DirBind(doBindCredentials(connector).dn, doBindCredentials(connector).pw)

InitialBindFailed ==
    [kind |-> "initial bind failed", dn |-> connector.Config.BindDN,
     cause |-> DoBindResult]

\* Arguments of the concurrent calls.
ConcScopes == { s \in Scopes : s.Groups = s.OfflineAccess }

ConcRefreshInputs ==
    { [ZeroIdentity EXCEPT !.UserID = <<"a">>, !.Email = <<"m">>,
                           !.ConnectorData = d] :
        d \in { NoBytes,
                Marshal([Username |-> <<"a">>, Entry |-> UserWithDN(<<"u", "a">>)]),
                Marshal([Username |-> <<"(", "<ff>">>,
                         Entry |-> UserWithDN(<<"u", "(">>)]) } }

ThreadInit == [pc |-> "ready", call |-> NoCall, ret |-> NoRet]

InitConc ==
    /\ cfg = OpenConnectorOn(BaseConfig).cfg
    /\ connector = OpenConnectorOn(BaseConfig).conn
    /\ openErr = NoError
    /\ pc = "idle"
    /\ call = NoCall
    /\ loc = LocInit
    /\ doFn = "none"
    /\ doErr = NoError
    /\ conns = <<>>
    /\ trace = <<>>
    /\ ret = NoRet
    /\ nrefresh = 0
    /\ issued = NoBytes
    /\ chained = FALSE
    /\ directory \in Directories
    /\ threads = [t \in Threads |-> ThreadInit]
    /\ frames = [t \in Threads |-> LocInit]
    /\ interleaved = FALSE

Running(t) == threads[t].pc \notin {"ready", "done"}

\* A step of the call of goroutine t: the connector and the directory stay
\* as they are.
StepOf(t) ==
    /\ interleaved' = (interleaved \/ \E u \in Threads \ {t} : Running(u))
    /\ UNCHANGED <<seqVars, directory>>

\* The call of goroutine t goes on at position p.
GoOn(t, p) == threads' = [threads EXCEPT ![t].pc = p]

\* The call of goroutine t returns.
Finish(t, ident, validPass, err) ==
    threads' = [threads EXCEPT
                  ![t].pc = "done",
                  ![t].ret = [op |-> threads[t].call.name, ident |-> ident,
                              validPass |-> validPass, err |-> err]]

\* Goroutine t calls Login.
ConcLogin(t) ==
    /\ threads[t].pc = "ready"
    /\ \E s \in ConcScopes, username \in Usernames, password \in Passwords :
         threads' = [threads EXCEPT
                       ![t].pc = "userEntry",
                       ![t].call = [name |-> "Login", s |-> s, username |-> username,
                                    password |-> password, ident |-> ZeroIdentity]]
    /\ frames' = [frames EXCEPT ![frameOf(t)] = LocInit]
    /\ StepOf(t)

\* Goroutine t calls Refresh.
ConcRefresh(t) ==
    /\ threads[t].pc = "ready"
    /\ \E s \in ConcScopes, ident \in ConcRefreshInputs :
         LET u == Unmarshal(ident.ConnectorData)
             c == [name |-> "Refresh", s |-> s, username |-> <<>>,
                   password |-> <<>>, ident |-> ident]
         IN  IF u.err # NoError
               THEN /\ threads' = [threads EXCEPT
                                     ![t].pc = "done",
                                     ![t].call = c,
                                     ![t].ret = [op |-> "Refresh", ident |-> ident,
                                                 validPass |-> FALSE, err |-> u.err]]
                    /\ UNCHANGED frames
               ELSE /\ threads' = [threads EXCEPT ![t].pc = "userEntry", ![t].call = c]
                    /\ frames' = [frames EXCEPT
                                    ![frameOf(t)] = [LocInit EXCEPT !.data = u.data]]
    /\ StepOf(t)

\* do() of Login and Refresh up to the user lookup: dial, bind, userEntry.
ConcUserEntry(t) ==
    /\ threads[t].pc = "userEntry"
    /\ LET c == threads[t].call
           f == frames[frameOf(t)]
           username == IF c.name = "Login" THEN c.username ELSE f.data.Username
           resp == DirSearch(directory.users, userSearchRequest(connector, username))
           r == userEntry(connector, username, resp)
           failed == IF c.name = "Login" THEN ZeroIdentity ELSE c.ident
       IN  IF bindFailed(DoBindResult)
             THEN Finish(t, failed, FALSE, InitialBindFailed) /\ UNCHANGED frames
           ELSE IF r.err # NoError
             THEN Finish(t, failed, FALSE, r.err) /\ UNCHANGED frames
           ELSE IF ~r.found
             THEN IF c.name = "Login"
                    THEN /\ frames' = [frames EXCEPT ![frameOf(t)].incorrectPass = TRUE]
                         /\ GoOn(t, "afterDo")
                    ELSE /\ Finish(t, c.ident, FALSE,
                                   [kind |-> "user not found", username |-> username])
                         /\ UNCHANGED frames
           ELSE /\ frames' = [frames EXCEPT ![frameOf(t)].user = r.user]
                /\ GoOn(t, IF c.name = "Login" THEN "bind" ELSE "afterDo")
    /\ StepOf(t)

\* The closure of Login: conn.Bind(user.DN, password)
ConcBind(t) ==
    /\ threads[t].pc = "bind"
    /\ LET c == threads[t].call
           f == frames[frameOf(t)]
           r == DirBind(f.user.DN, c.password)
       IN  IF r = BindOK
             THEN GoOn(t, "afterDo") /\ UNCHANGED frames
           ELSE IF isInvalidCredentials(r)
             THEN /\ frames' = [frames EXCEPT ![frameOf(t)].incorrectPass = TRUE]
                  /\ GoOn(t, "afterDo")
           ELSE Finish(t, ZeroIdentity, FALSE, userBindError(r, f.user.DN))
                /\ UNCHANGED frames
    /\ StepOf(t)

\* Login and Refresh after do() returned nil.
ConcAfterDo(t) ==
    /\ threads[t].pc = "afterDo"
    /\ LET c == threads[t].call
           f == frames[frameOf(t)]
           r == identityFromEntry(connector, f.user)
           failed == IF c.name = "Login" THEN ZeroIdentity ELSE c.ident
           ident == IF c.name = "Login" THEN r.ident
                    ELSE keepConnectorData(r.ident, c.ident)
       IN  IF c.name = "Login" /\ f.incorrectPass
             THEN Finish(t, ZeroIdentity, FALSE, NoError) /\ UNCHANGED frames
           ELSE IF c.name = "Refresh" /\ ~sameDN(f.user, f.data)
             THEN Finish(t, c.ident, FALSE,
                         [kind |-> "refresh expected DN",
                          username |-> f.data.Username,
                          expected |-> f.data.Entry.DN, got |-> f.user.DN])
                  /\ UNCHANGED frames
           ELSE IF r.err # NoError
             THEN Finish(t, failed, FALSE, r.err) /\ UNCHANGED frames
           ELSE IF c.s.Groups
             THEN /\ frames' = [frames EXCEPT ![frameOf(t)].ident = ident]
                  /\ GoOn(t, "groups")
           ELSE IF c.name = "Login"
             THEN Finish(t, withConnectorData(c.s, c.username, f.user, ident),
                         TRUE, NoError)
                  /\ UNCHANGED frames
           ELSE Finish(t, ident, FALSE, NoError) /\ UNCHANGED frames
    /\ StepOf(t)

\* c.groups(ctx, user) and the return of Login and Refresh after it.
ConcGroups(t) ==
    /\ threads[t].pc = "groups"
    /\ LET c == threads[t].call
           f == frames[frameOf(t)]
           resp == DirSearch(directory.groups, groupSearchRequest(connector, f.user))
           err == IF bindFailed(DoBindResult) THEN InitialBindFailed
                  ELSE IF resp.err THEN [kind |-> "search failed"]
                  ELSE NoError
           g == groupsResult(connector, err, resp.Entries)
           ident == [f.ident EXCEPT !.Groups = g.names]
       IN  IF g.err # NoError
             THEN Finish(t, ZeroIdentity, FALSE,
                         [kind |-> "failed to query groups", cause |-> g.err])
           ELSE IF c.name = "Login"
             THEN Finish(t, withConnectorData(c.s, c.username, f.user, ident),
                         TRUE, NoError)
           ELSE Finish(t, ident, FALSE, NoError)
    /\ UNCHANGED frames
    /\ StepOf(t)

NextConc ==
    \E t \in Threads :
        \/ ConcLogin(t)
        \/ ConcRefresh(t)
        \/ ConcUserEntry(t)
        \/ ConcBind(t)
        \/ ConcAfterDo(t)
        \/ ConcGroups(t)

SpecConc == InitConc /\ [][NextConc]_vars

-----------------------------------------------------------------------------

\* Goroutine t has returned from a call of the given name.
Done(t, name) == threads[t].pc = "done" /\ threads[t].call.name = name

\* The answer of the directory to the user lookup of a username.
DirUser(username) ==
    DirSearch(directory.users, userSearchRequest(connector, username))

\* Login of goroutine t succeeded.
LoginOK(t) ==
    Done(t, "Login") /\ threads[t].ret.validPass /\ threads[t].ret.err = NoError

SameCredentials(t, u) ==
    /\ threads[t].call.username = threads[u].call.username
    /\ threads[t].call.password = threads[u].call.password

\* C18: with calls of several goroutines interleaved in every order against
\* a directory that does not change, two finished calls with the same
\* arguments return the same result; two successful Logins with the same
\* credentials return the same user (and the same groups when both ask for
\* them); a successful Login returns the user the directory holds for its
\* own username and password; and the connector stays as OpenConnector
\* built it.
C18_CallsShareNoState ==
    /\ \A t, u \in Threads :
          (/\ threads[t].pc = "done" /\ threads[u].pc = "done"
           /\ threads[t].call = threads[u].call)
          => threads[t].ret = threads[u].ret
    /\ \A t, u \in Threads :
          (LoginOK(t) /\ LoginOK(u) /\ SameCredentials(t, u))
          => LET a == threads[t].ret.ident
                 b == threads[u].ret.ident
             IN  /\ a.UserID = b.UserID
                 /\ a.Username = b.Username
                 /\ a.Email = b.Email
                 /\ a.EmailVerified = b.EmailVerified
                 /\ (threads[t].call.s.Groups /\ threads[u].call.s.Groups)
                    => a.Groups = b.Groups
    /\ \A t \in Threads :
          LoginOK(t)
          => LET found == DirUser(threads[t].call.username)
             IN  /\ ~found.err
                 /\ Len(found.Entries) = 1
                 /\ DirBind(found.Entries[1].DN, threads[t].call.password) = BindOK
                 /\ threads[t].ret.ident.UserID
                      = getAttr(found.Entries[1], Cfg.UserSearch.IDAttr)
    /\ connector = OpenConnectorOn(BaseConfig).conn
    /\ cfg = OpenConnectorOn(BaseConfig).cfg

\* Two Logins with the same valid credentials ran interleaved and both
\* returned the user with its groups.
C18_Witness ==
    /\ interleaved
    /\ LoginOK(1) /\ LoginOK(2)
    /\ threads[1].call = threads[2].call
    /\ threads[1].call.username = <<"a">>
    /\ threads[1].ret.ident = threads[2].ret.ident
    /\ Len(threads[1].ret.ident.Groups) = 2

\* A Login and a Refresh of different users ran interleaved and both succeeded.
C18_MixedWitness ==
    /\ interleaved
    /\ LoginOK(1)
    /\ threads[1].ret.ident.UserID = <<"*">>
    /\ Done(2, "Refresh")
    /\ threads[2].ret.err = NoError
    /\ threads[2].ret.ident.UserID = <<"a">>

=============================================================================
